---- MODULE Spec2Model ----
(***************************************************************************)
(* Simulation core of the "Space Program" game:                            *)
(*   - systems/research_system.py   ResearchSystem (technology research)   *)
(*   - systems/spacecraft_system.py SpacecraftDesign (component placement) *)
(*   - ui/mission_controller.py     MissionController (flight tick)        *)
(*                                                                         *)
(* Python floats are modelled as exact fixed-point integers:               *)
(*   research progress in tenths of a percent (100 % = 1000),              *)
(*   lengths in tenths of a metre, flight quantities in hundredths.        *)
(***************************************************************************)
EXTENDS Integers, Sequences, FiniteSets, Bags, TLC

VARIABLES
    \* ResearchSystem
    active_projects,          \* dict tech_id -> ResearchProject, in insertion order
    researched_technologies,  \* list of tech ids
    available_scientists,
    research_points,
    \* SpacecraftDesign
    components,               \* dict placed-component id -> catalog id
    layout,                   \* dict placed-component id -> position
    stats,                    \* _mass, _cost, _power_balance, _delta_v, _reliability
    \* MissionController
    mission_active,
    mission_time,
    mission_data,             \* MissionData
    systems,                  \* subsystem flags
    update_timer,             \* id of the last root.after call, NoTimer for None
    pending,                  \* ids of the root.after callbacks not yet run
    \* TestProgram
    factory_research_system,  \* the ResearchSystem handed to SpacecraftFactory
    \* SpacecraftDesignerPanel
    current_design,           \* "None", or the name of the SpacecraftDesign held
    \* the last call made on the simulation core and what it returned
    ret

researchVars == <<active_projects, researched_technologies,
                  available_scientists, research_points>>

designVars == <<components, layout, stats>>

missionVars == <<mission_active, mission_time, mission_data, systems,
                 update_timer, pending>>

factoryVars == <<factory_research_system>>

designerVars == <<current_design>>

vars == <<active_projects, researched_technologies, available_scientists,
          research_points, components, layout, stats, mission_active,
          mission_time, mission_data, systems, update_timer, pending,
          factory_research_system, current_design, ret>>

----------------------------------------------------------------------------
(* Research system *)

\* progress is kept in tenths of a percent
ProgressScale == 10

\* ResearchProject.update_progress caps progress at 100 (percent)
ProgressCap == 100

InitialScientists == 10

InitialResearchPoints == 1000

\* self.efficiency = 1.0
Efficiency == 1

\* ResearchSystem.load_technologies: the catalog (the fields the core reads)
Technologies ==
    [ BASIC_ROCKETRY |-> [cost |-> 100, research_time |-> 5,
                          prerequisites |-> << >>],
      LIQUID_FUEL    |-> [cost |-> 200, research_time |-> 10,
                          prerequisites |-> <<"BASIC_ROCKETRY">>] ]

TechIds == DOMAIN Technologies

\* tech_id arguments tried: the catalog ids and one id that is not in it
TechArgs == TechIds \cup {"WARP_DRIVE"}

\* scientists arguments tried (the spinbox offers 0..10; typed text and the
\* API take any int, which start_research and resume_research do not validate)
ScientistArgs == {-5, 0, 5, 10}

\* the spinbox values tried (from_=0, to=10)
SpinboxArgs == {0, 5, 10}

\* update_research is explored while every progress is above -ProgressFloor
\* tenths of a percent (progress is unbounded below with negative scientists)
ProgressFloor == 20

\* start_research and resume_research are explored while the pool holds at
\* most AvailableCap scientists (the pool is unbounded above with negative
\* scientists)
AvailableCap == 15

Range(s) == {s[i] : i \in DOMAIN s}

\* tech_id in self.active_projects
ProjectIds == {active_projects[i].tech_id : i \in DOMAIN active_projects}

\* self.active_projects[tech_id]
Project(tech_id) ==
    LET i == CHOOSE i \in DOMAIN active_projects :
                 active_projects[i].tech_id = tech_id
    IN  active_projects[i]

\* self.active_projects[tech_id] = project (a key already present keeps its
\* place in the dict's order)
SetProject(projects, project) ==
    IF \E i \in DOMAIN projects : projects[i].tech_id = project.tech_id
    THEN [i \in DOMAIN projects |->
            IF projects[i].tech_id = project.tech_id THEN project
                                                     ELSE projects[i]]
    ELSE Append(projects, project)

is_available_noprereq(tech_id, researched) == TRUE

\* Technology.is_available
is_available(tech_id, researched) ==
    LET prereqs == Technologies[tech_id].prerequisites
    IN  IF prereqs = << >> THEN TRUE
        ELSE \A i \in DOMAIN prereqs : prereqs[i] \in Range(researched)

\* the checks of start_research, in the order of the code; "OK" when all pass
StartVerdict(tech_id, scientists) ==
    IF tech_id \notin TechIds THEN "not_found"
    ELSE IF ~is_available(tech_id, researched_technologies) THEN "not_available"
    ELSE IF tech_id \in Range(researched_technologies) THEN "already_researched"
    ELSE IF scientists > available_scientists THEN "no_scientists"
    ELSE IF Technologies[tech_id].cost > research_points THEN "no_points"
    ELSE "OK"

\* a start_research that books the cost before it checks the scientists
start_research_early_charge(tech_id, scientists) ==
    LET v == StartVerdict(tech_id, scientists)
    IN  /\ ret' = [op |-> "start_research", tech_id |-> tech_id,
                   scientists |-> scientists, result |-> (v = "OK")]
        /\ IF v = "OK"
           THEN /\ active_projects' = SetProject(active_projects,
                        [tech_id |-> tech_id, progress |-> 0,
                         scientists_assigned |-> scientists,
                         status |-> "ACTIVE"])
                /\ available_scientists' = available_scientists - scientists
                /\ research_points' = research_points - Technologies[tech_id].cost
                /\ UNCHANGED researched_technologies
           ELSE IF v = "no_scientists"
           THEN /\ research_points' = research_points - Technologies[tech_id].cost
                /\ UNCHANGED <<active_projects, available_scientists,
                               researched_technologies>>
           ELSE UNCHANGED researchVars

\* ResearchSystem.start_research
start_research(tech_id, scientists) ==
    LET v == StartVerdict(tech_id, scientists)
    IN  /\ ret' = [op |-> "start_research", tech_id |-> tech_id,
                   scientists |-> scientists, result |-> (v = "OK")]
        /\ IF v = "OK"
           THEN /\ active_projects' = SetProject(active_projects,
                        [tech_id |-> tech_id, progress |-> 0,
                         scientists_assigned |-> scientists,
                         status |-> "ACTIVE"])
                /\ available_scientists' = available_scientists - scientists
                /\ research_points' = research_points - Technologies[tech_id].cost
                /\ UNCHANGED researched_technologies
           ELSE UNCHANGED researchVars

Min(a, b) == IF a < b THEN a ELSE b

Max(a, b) == IF a > b THEN a ELSE b

\* ResearchProject.update_progress: the project after the call
update_progress(project, efficiency) ==
    IF project.status = "ACTIVE"
    THEN LET progress_increase ==
                 (project.scientists_assigned * efficiency * ProgressScale)
                     \div Technologies[project.tech_id].research_time
             progress == Min(ProgressCap * ProgressScale,
                             project.progress + progress_increase)
         IN  [project EXCEPT !.progress = progress,
                             !.status = IF progress >= ProgressCap * ProgressScale
                                        THEN "COMPLETED" ELSE "ACTIVE"]
    ELSE project

\* ResearchProject.update_progress: its return value
update_progress_returns(project, efficiency) ==
    /\ project.status = "ACTIVE"
    /\ update_progress(project, efficiency).status = "COMPLETED"

RECURSIVE SumAssigned(_)
SumAssigned(projects) ==
    IF projects = << >> THEN 0
    ELSE Head(projects).scientists_assigned + SumAssigned(Tail(projects))

RECURSIVE AppendNew(_, _)
\* for each id in turn: if id not in list: list.append(id)
AppendNew(list, ids) ==
    IF ids = << >> THEN list
    ELSE AppendNew(IF Head(ids) \in Range(list) THEN list
                                                ELSE Append(list, Head(ids)),
                   Tail(ids))

SeqMapTechId(projects) == [i \in DOMAIN projects |-> projects[i].tech_id]

ReturnedScientists_none(completed) == 0

\* self.available_scientists += project.scientists_assigned, for each
\* completed project
ReturnedScientists(completed) == SumAssigned(completed)

\* ResearchSystem.update_research
update_research ==
    LET completed == SelectSeq(active_projects,
                         LAMBDA p : update_progress_returns(p, Efficiency))
        completed_techs == SeqMapTechId(completed)
        updated == [i \in DOMAIN active_projects |->
                        update_progress(active_projects[i], Efficiency)]
    IN  /\ \A i \in DOMAIN active_projects :
              active_projects[i].progress > -ProgressFloor
        /\ researched_technologies' =
              AppendNew(researched_technologies, completed_techs)
        /\ available_scientists' =
              available_scientists + ReturnedScientists(completed)
        /\ active_projects' =
              SelectSeq(updated,
                        LAMBDA p : p.tech_id \notin Range(completed_techs))
        /\ research_points' = research_points
        /\ ret' = [op |-> "update_research", result |-> completed_techs]

\* ResearchSystem.pause_research
pause_research(tech_id) ==
    IF tech_id \in ProjectIds
    THEN /\ active_projects' = SetProject(active_projects,
                 [Project(tech_id) EXCEPT !.status = "PAUSED",
                                          !.scientists_assigned = 0])
         /\ available_scientists' =
                 available_scientists + Project(tech_id).scientists_assigned
         /\ UNCHANGED <<researched_technologies, research_points>>
         /\ ret' = [op |-> "pause_research", tech_id |-> tech_id, result |-> TRUE]
    ELSE /\ UNCHANGED researchVars
         /\ ret' = [op |-> "pause_research", tech_id |-> tech_id, result |-> FALSE]

\* ResearchSystem.resume_research
resume_research(tech_id, scientists) ==
    IF tech_id \in ProjectIds /\ scientists <= available_scientists
    THEN /\ active_projects' = SetProject(active_projects,
                 [Project(tech_id) EXCEPT !.status = "ACTIVE",
                                          !.scientists_assigned = scientists])
         /\ available_scientists' = available_scientists - scientists
         /\ UNCHANGED <<researched_technologies, research_points>>
         /\ ret' = [op |-> "resume_research", tech_id |-> tech_id,
                    scientists |-> scientists, result |-> TRUE]
    ELSE /\ UNCHANGED researchVars
         /\ ret' = [op |-> "resume_research", tech_id |-> tech_id,
                    scientists |-> scientists, result |-> FALSE]

\* the keys of self.technologies, in the order load_technologies inserts them
TechOrder == <<"BASIC_ROCKETRY", "LIQUID_FUEL">>

\* a get_available_technologies that does not leave the researched ones out
get_available_technologies_keeps_researched ==
    SelectSeq(TechOrder,
              LAMBDA tech_id : is_available(tech_id, researched_technologies))

\* ResearchSystem.get_available_technologies: the ids of the list it returns
get_available_technologies ==
    SelectSeq(TechOrder,
              LAMBDA tech_id :
                  /\ is_available(tech_id, researched_technologies)
                  /\ tech_id \notin Range(researched_technologies))

----------------------------------------------------------------------------
(* Spacecraft design *)

\* ComponentLibrary._load_default_components: the catalog (the fields the
\* design reads).  Lengths in tenths of a metre, power in tenths of a kW,
\* reliability in percent.
Catalog ==
    [ BASIC_ANTENNA  |-> [class |-> "ControlComponent",
                          tech_requirement |-> "",
                          mass |-> 10, cost |-> 500,
                          power_required |-> 1, reliability |-> 98,
                          size |-> [x |-> 5, y |-> 5, z |-> 10]],
      BASIC_RADIO    |-> [class |-> "ControlComponent",
                          tech_requirement |-> "",
                          mass |-> 5, cost |-> 300,
                          power_required |-> 2, reliability |-> 99,
                          size |-> [x |-> 3, y |-> 3, z |-> 3]],
      BASIC_ENGINE   |-> [class |-> "PropulsionComponent",
                          tech_requirement |-> "BASIC_ROCKETRY",
                          mass |-> 1000,
                          cost |-> 10000, power_required |-> 100,
                          reliability |-> 95,
                          size |-> [x |-> 20, y |-> 20, z |-> 30],
                          thrust |-> 100, isp |-> 280],
      BASIC_TANK     |-> [class |-> "StorageComponent",
                          tech_requirement |-> "BASIC_ROCKETRY",
                          mass |-> 500,
                          cost |-> 5000, power_required |-> 0, reliability |-> 98,
                          size |-> [x |-> 20, y |-> 20, z |-> 40],
                          max_mass |-> 10000, contents_type |-> "FUEL"],
      SOLAR_PANEL    |-> [class |-> "PowerComponent",
                          tech_requirement |-> "LIQUID_FUEL",
                          mass |-> 100, cost |-> 15000,
                          power_required |-> 0, reliability |-> 96,
                          size |-> [x |-> 40, y |-> 1, z |-> 20],
                          power_output |-> 50],
      BASIC_COMPUTER |-> [class |-> "ControlComponent",
                          tech_requirement |-> "BASIC_ROCKETRY",
                          mass |-> 50, cost |-> 20000,
                          power_required |-> 5, reliability |-> 99,
                          size |-> [x |-> 5, y |-> 5, z |-> 5]] ]

CatalogIds == DOMAIN Catalog

Axes == {"x", "y", "z"}

\* positions tried by add_component: the corners of a cube of side GridStep
\* (tenths of a metre), wider than the largest catalog component is long
GridStep == 45

Coords == {0, GridStep}

Positions == [Axes -> Coords]

\* add_component is explored while the design holds fewer than MaxComponents
MaxComponents == 3

\* the stack designs: engines and tanks, the n-th placed at the n-th slot of
\* the diagonal, up to StackHeight components
StackArgs == {"BASIC_ENGINE", "BASIC_TANK"}

StackHeight == 11

StackSlot(n) == [a \in Axes |-> n * GridStep]

\* a placed-component id that is in no design
AbsentId == <<"NO_SUCH_COMPONENT", 0>>

\* one axis of _components_overlap: the intervals [pos, pos + size] meet
AxisOverlap(size1, pos1, size2, pos2, axis) ==
    ~(\/ pos1[axis] + size1[axis] < pos2[axis]
      \/ pos1[axis] > pos2[axis] + size2[axis])

\* SpacecraftDesign._components_overlap: the loop returns True at the first
\* axis whose intervals meet
_components_overlap(size1, pos1, size2, pos2) ==
    \E axis \in Axes : AxisOverlap(size1, pos1, size2, pos2, axis)

_check_collision_never(new_component, position) == FALSE

\* SpacecraftDesign._check_collision
_check_collision(new_component, position) ==
    \E comp_id \in DOMAIN components :
        _components_overlap(Catalog[new_component].size, position,
                            Catalog[components[comp_id]].size, layout[comp_id])

RECURSIVE Sum(_, _)
\* the sum of f[i] over the ids in S
Sum(f, S) ==
    IF S = {} THEN 0
    ELSE LET i == CHOOSE i \in S : TRUE
         IN  f[i] + Sum(f, S \ {i})

RECURSIVE BagOf(_, _)
\* the bag of the values f[i] over the ids in S
BagOf(f, S) ==
    IF S = {} THEN EmptyBag
    ELSE LET i == CHOOSE i \in S : TRUE
         IN  SetToBag({f[i]}) (+) BagOf(f, S \ {i})

\* a reliability is a product of percentages, kept as the bag of its factors;
\* the float 0 of __init__ is kept apart from the empty product 1.0
ReliabilityZero == [zero |-> TRUE, factors |-> EmptyBag]

\* a delta-v is avg_isp * 9.81 * log(mass / dry_mass), kept by its operands
\* (avg_isp = isp_sum / num_engines); DeltaVZero stands for the int 0
DeltaVZero == [isp_sum |-> 0, num_engines |-> 1, mass |-> 1, dry_mass |-> 1]

DeltaVIsZero(dv) == dv.isp_sum = 0 \/ dv.mass = dv.dry_mass

\* an _update_statistics that does not reset _mass before it sums
_update_statistics_no_reset(comps, old) ==
    LET ids == DOMAIN comps
        spec(i) == Catalog[comps[i]]
        mass == old.mass + Sum([i \in ids |-> spec(i).mass], ids)
        cost == Sum([i \in ids |-> spec(i).cost], ids)
        power == Sum([i \in ids |->
                        (IF spec(i).class = "PowerComponent"
                         THEN spec(i).power_output ELSE 0)
                        - spec(i).power_required], ids)
        reliability == [zero |-> FALSE,
                        factors |-> BagOf([i \in ids |-> spec(i).reliability], ids)]
        engines == {i \in ids : spec(i).class = "PropulsionComponent"}
        tanks == {i \in ids : /\ spec(i).class = "StorageComponent"
                              /\ spec(i).contents_type = "FUEL"}
        total_fuel == Sum([i \in tanks |-> spec(i).max_mass], tanks)
        isp_sum == Sum([i \in engines |-> spec(i).isp], engines)
        num_engines == Cardinality(engines)
        dry_mass == mass - total_fuel
        base == [mass |-> mass, cost |-> cost, power_balance |-> power,
                 reliability |-> reliability, delta_v |-> old.delta_v]
    IN  IF num_engines > 0 /\ total_fuel > 0
        THEN IF dry_mass = 0
             THEN [stats |-> base, raised |-> "ZeroDivisionError"]
             ELSE IF (mass > 0 /\ dry_mass < 0) \/ (mass < 0 /\ dry_mass > 0)
                     \/ mass = 0
             THEN [stats |-> base, raised |-> "ValueError"]
             ELSE [stats |-> [base EXCEPT !.delta_v =
                                  [isp_sum |-> isp_sum, num_engines |-> num_engines,
                                   mass |-> mass, dry_mass |-> dry_mass]],
                   raised |-> "none"]
        ELSE [stats |-> base, raised |-> "none"]

\* SpacecraftDesign._update_statistics over the placed components comps:
\* the statistics it leaves, and the exception it raises ("none" if none)
_update_statistics(comps, old) ==
    LET ids == DOMAIN comps
        spec(i) == Catalog[comps[i]]
        mass == Sum([i \in ids |-> spec(i).mass], ids)
        cost == Sum([i \in ids |-> spec(i).cost], ids)
        power == Sum([i \in ids |->
                        (IF spec(i).class = "PowerComponent"
                         THEN spec(i).power_output ELSE 0)
                        - spec(i).power_required], ids)
        reliability == [zero |-> FALSE,
                        factors |-> BagOf([i \in ids |-> spec(i).reliability], ids)]
        engines == {i \in ids : spec(i).class = "PropulsionComponent"}
        tanks == {i \in ids : /\ spec(i).class = "StorageComponent"
                              /\ spec(i).contents_type = "FUEL"}
        total_fuel == Sum([i \in tanks |-> spec(i).max_mass], tanks)
        isp_sum == Sum([i \in engines |-> spec(i).isp], engines)
        num_engines == Cardinality(engines)
        dry_mass == mass - total_fuel
        base == [mass |-> mass, cost |-> cost, power_balance |-> power,
                 reliability |-> reliability, delta_v |-> old.delta_v]
    IN  IF num_engines > 0 /\ total_fuel > 0
        THEN IF dry_mass = 0
             THEN [stats |-> base, raised |-> "ZeroDivisionError"]
             ELSE IF (mass > 0 /\ dry_mass < 0) \/ (mass < 0 /\ dry_mass > 0)
                     \/ mass = 0
             THEN [stats |-> base, raised |-> "ValueError"]
             ELSE [stats |-> [base EXCEPT !.delta_v =
                                  [isp_sum |-> isp_sum, num_engines |-> num_engines,
                                   mass |-> mass, dry_mass |-> dry_mass]],
                   raised |-> "none"]
        ELSE [stats |-> base, raised |-> "none"]

\* dict with key k set to v
Put(d, k, v) == [i \in DOMAIN d \cup {k} |-> IF i = k THEN v ELSE d[i]]

\* dict without key k
Del(d, k) == [i \in DOMAIN d \ {k} |-> d[i]]

\* an add_component that records the position before it checks the collision
add_component_records_rejected(component, position) ==
    LET component_id == <<component, Cardinality(DOMAIN components)>>
    IN  IF _check_collision(component, position)
        THEN /\ layout' = Put(layout, component_id, position)
             /\ UNCHANGED <<components, stats>>
             /\ ret' = [op |-> "add_component", component |-> component,
                        position |-> position, result |-> "False"]
        ELSE LET comps == Put(components, component_id, component)
                 upd == _update_statistics(comps, stats)
             IN  /\ components' = comps
                 /\ layout' = Put(layout, component_id, position)
                 /\ stats' = upd.stats
                 /\ ret' = [op |-> "add_component", component |-> component,
                            position |-> position,
                            result |-> IF upd.raised = "none" THEN "True"
                                                              ELSE upd.raised]

\* SpacecraftDesign.add_component
add_component(component, position) ==
    IF _check_collision(component, position)
    THEN /\ UNCHANGED designVars
         /\ ret' = [op |-> "add_component", component |-> component,
                    position |-> position, result |-> "False"]
    ELSE LET component_id == <<component, Cardinality(DOMAIN components)>>
             comps == Put(components, component_id, component)
             upd == _update_statistics(comps, stats)
         IN  /\ components' = comps
             /\ layout' = Put(layout, component_id, position)
             /\ stats' = upd.stats
             /\ ret' = [op |-> "add_component", component |-> component,
                        position |-> position,
                        result |-> IF upd.raised = "none" THEN "True"
                                                          ELSE upd.raised]

\* SpacecraftDesign.remove_component
remove_component(component_id) ==
    IF component_id \in DOMAIN components
    THEN LET comps == Del(components, component_id)
             upd == _update_statistics(comps, stats)
         IN  /\ components' = comps
             /\ layout' = Del(layout, component_id)
             /\ stats' = upd.stats
             /\ ret' = [op |-> "remove_component", component_id |-> component_id,
                        result |-> IF upd.raised = "none" THEN "True"
                                                          ELSE upd.raised]
    ELSE /\ UNCHANGED designVars
         /\ ret' = [op |-> "remove_component", component_id |-> component_id,
                    result |-> "False"]

\* SpacecraftDesign.get_summary
get_summary ==
    [mass |-> stats.mass, cost |-> stats.cost,
     power_balance |-> stats.power_balance, delta_v |-> stats.delta_v,
     reliability |-> stats.reliability,
     component_count |-> Cardinality(DOMAIN components)]

get_available_components_ungated(researched_techs) == Catalog

\* ComponentLibrary.get_available_components: the dict it returns
get_available_components(researched_techs) ==
    LET available ==
            {comp_id \in CatalogIds :
                \/ Catalog[comp_id].tech_requirement = ""
                \/ Catalog[comp_id].tech_requirement \in Range(researched_techs)}
    IN  [comp_id \in available |-> Catalog[comp_id]]

\* SpacecraftFactory.get_available_components, for the factory TestProgram
\* builds: self.research_system is the ResearchSystem it was given
factory_get_available_components ==
    get_available_components(factory_research_system.researched_technologies)

\* SpacecraftDesign.__init__
InitDesign ==
    /\ components = << >>
    /\ layout = << >>
    /\ stats = [mass |-> 0, cost |-> 0, power_balance |-> 0,
                delta_v |-> DeltaVZero, reliability |-> ReliabilityZero]

----------------------------------------------------------------------------
(* Mission controller *)

\* altitude (km), velocity (km/s), fuel, battery (%), temperature are kept in
\* hundredths; thrust is in percent
Hundredths == 100

SystemNames == {"PROP", "GUID", "ELEC", "COMM", "LIFE", "THRM"}

\* self.update_timer = None
NoTimer == 0

\* self.target_altitude = 300 (km)
TargetAltitude == 300

\* self.target_velocity = 7.8 (km/s), in hundredths
TargetVelocityHundredths == 780

\* update_mission is explored while mission_time is below MaxMissionTime
MaxMissionTime == 6

\* _check_anomalies is explored while at most MaxFailedSystems flags are down
MaxFailedSystems == 1

\* an anomaly is explored in the first MaxDegradedTime ticks of a mission, and
\* a mission with a flag down is explored up to that mission_time
MaxDegradedTime == 3

\* MissionData.create_default
create_default ==
    [altitude |-> 0, velocity |-> 0, fuel |-> 100 * Hundredths,
     orbit_status |-> "PRE-LAUNCH", stage |-> 1, thrust |-> 0,
     orientation |-> 90, temperature |-> 20 * Hundredths,
     battery |-> 100 * Hundredths, comms |-> TRUE]

\* the controller's fields as one record
Controller ==
    [mission_active |-> mission_active, mission_time |-> mission_time,
     mission_data |-> mission_data, systems |-> systems,
     update_timer |-> update_timer, pending |-> pending]

\* stage factors whose second stage burns fuel at the first stage's rate
stage_factors_even_burn ==
    [s \in {1, 2} |->
        IF s = 1 THEN [altitude |-> 10, velocity |-> 5, fuel |-> 20]
                 ELSE [altitude |-> 5, velocity |-> 10, fuel |-> 20]]

\* stage_factors of _update_physics, per unit of thrust, in hundredths
stage_factors ==
    [s \in {1, 2} |->
        IF s = 1 THEN [altitude |-> 10, velocity |-> 5, fuel |-> 20]
                 ELSE [altitude |-> 5, velocity |-> 10, fuel |-> 10]]

Abs(a) == IF a < 0 THEN -a ELSE a

\* an _update_physics without the atmospheric drag
_update_physics_no_drag(d) ==
    LET factors == IF d.stage \in DOMAIN stage_factors
                   THEN stage_factors[d.stage] ELSE stage_factors[1]
        altitude == d.altitude + d.thrust * factors.altitude
        velocity == d.velocity + d.thrust * factors.velocity
        fuel == d.fuel - d.thrust * factors.fuel
    IN  [d EXCEPT
            !.altitude = altitude,
            !.velocity = velocity,
            !.fuel = fuel,
            !.battery = d.battery - 1,
            !.temperature = IF d.thrust > 50 THEN d.temperature + 10
                            ELSE Max(20 * Hundredths, d.temperature - 5)]

\* MissionController._update_physics
_update_physics(d) ==
    LET factors == IF d.stage \in DOMAIN stage_factors
                   THEN stage_factors[d.stage] ELSE stage_factors[1]
        altitude == d.altitude + d.thrust * factors.altitude
        velocity == d.velocity + d.thrust * factors.velocity
        fuel == d.fuel - d.thrust * factors.fuel
    IN  [d EXCEPT
            !.altitude = altitude,
            !.velocity = IF altitude < 100 * Hundredths THEN velocity - 1
                                                        ELSE velocity,
            !.fuel = fuel,
            !.battery = d.battery - 1,
            !.temperature = IF d.thrust > 50 THEN d.temperature + 10
                            ELSE Max(20 * Hundredths, d.temperature - 5)]

\* a _check_anomalies whose anomaly also shuts the engine down
_check_anomalies_cuts_thrust(c, anomaly) ==
    IF anomaly = "none"
    THEN [c |-> c, events |-> << >>]
    ELSE [c |-> [c EXCEPT !.systems[anomaly] = FALSE,
                          !.mission_data.thrust = 0],
          events |-> <<"WARNING: anomaly">>]

\* MissionController._check_anomalies: anomaly is the subsystem random.choice
\* picked, or "none" when random.random() was not below anomaly_chance
_check_anomalies(c, anomaly) ==
    IF anomaly = "none"
    THEN [c |-> c, events |-> << >>]
    ELSE [c |-> [c EXCEPT !.systems[anomaly] = FALSE],
          events |-> <<"WARNING: anomaly">>]

\* a reset_mission that leaves the subsystem flags as they are
reset_mission_keeps_systems(c) ==
    [c |-> [c EXCEPT !.mission_time = 0,
                     !.mission_data = create_default],
     events |-> <<"MISSION RESET COMPLETE">>]

\* MissionController.reset_mission
reset_mission(c) ==
    [c |-> [c EXCEPT !.mission_time = 0,
                     !.mission_data = create_default,
                     !.systems = [n \in SystemNames |-> TRUE]],
     events |-> <<"MISSION RESET COMPLETE">>]

\* an abort_mission that does not cancel the scheduled tick
abort_mission_no_cancel(c) ==
    IF c.mission_active
    THEN LET r == reset_mission([c EXCEPT !.mission_active = FALSE])
         IN  [c |-> r.c, events |-> <<"MISSION ABORT COMMANDED">> \o r.events]
    ELSE [c |-> c, events |-> << >>]

\* MissionController.abort_mission
abort_mission(c) ==
    IF c.mission_active
    THEN LET cancelled == IF c.update_timer # NoTimer
                          THEN c.pending \ {c.update_timer} ELSE c.pending
             r == reset_mission([c EXCEPT !.mission_active = FALSE,
                                          !.pending = cancelled])
         IN  [c |-> r.c, events |-> <<"MISSION ABORT COMMANDED">> \o r.events]
    ELSE [c |-> c, events |-> << >>]

FuelDepleted_strict(d) == d.fuel < 0

\* the fuel test of _check_mission_status
FuelDepleted(d) == d.fuel <= 0

\* the temperature test of _check_mission_status
TemperatureCritical(d) == d.temperature > 100 * Hundredths

\* the target-orbit test of _check_mission_status
TargetOrbit(d) ==
    /\ Abs(d.altitude - TargetAltitude * Hundredths) < 10 * Hundredths
    /\ Abs(d.velocity - TargetVelocityHundredths) < 10

\* MissionController._check_mission_status
_check_mission_status(c) ==
    LET d == c.mission_data
        low == IF d.battery <= 10 * Hundredths
               THEN <<"WARNING: Low battery">> ELSE << >>
    IN  IF FuelDepleted(d)
        THEN LET a == abort_mission(c)
             IN  [c |-> a.c, events |-> <<"CRITICAL: Fuel depleted">> \o a.events]
        ELSE IF TemperatureCritical(d)
        THEN LET a == abort_mission(c)
             IN  [c |-> a.c,
                  events |-> low \o <<"CRITICAL: Temperature critical">> \o a.events]
        ELSE IF TargetOrbit(d)
        THEN [c |-> c, events |-> low \o <<"SUCCESS: Target orbit achieved!">>]
        ELSE [c |-> c, events |-> low]

\* root.after: an id that is neither pending nor held in update_timer
NewTimer(c) ==
    CHOOSE t \in 1..(Cardinality(c.pending) + 2) :
        /\ t \notin c.pending
        /\ t # c.update_timer
        /\ \A u \in 1..(t - 1) : u \in c.pending \/ u = c.update_timer

\* MissionController.update_mission
update_mission(c, anomaly) ==
    IF ~c.mission_active
    THEN [c |-> c, events |-> << >>]
    ELSE LET c1 == [c EXCEPT !.mission_time = c.mission_time + 1,
                             !.mission_data = _update_physics(c.mission_data)]
             a == _check_anomalies(c1, anomaly)
             s == _check_mission_status(a.c)
             t == NewTimer(s.c)
         IN  [c |-> IF s.c.mission_active
                    THEN [s.c EXCEPT !.update_timer = t,
                                     !.pending = s.c.pending \cup {t}]
                    ELSE s.c,
              events |-> a.events \o s.events]

\* MissionController.start_mission
start_mission(c, anomaly) ==
    IF ~c.mission_active
    THEN LET u == update_mission([c EXCEPT !.mission_active = TRUE], anomaly)
         IN  [c |-> u.c,
              events |-> <<"MISSION STARTED - T PLUS ZERO">> \o u.events]
    ELSE [c |-> c, events |-> << >>]

\* a next_stage that does not stop at stage 2
next_stage_unbounded(c) ==
    IF c.mission_active
    THEN [c |-> [c EXCEPT !.mission_data.stage = c.mission_data.stage + 1],
          events |-> <<"STAGE SEPARATION CONFIRMED">>]
    ELSE [c |-> c, events |-> << >>]

\* MissionController.next_stage
next_stage(c) ==
    IF c.mission_active /\ c.mission_data.stage < 2
    THEN [c |-> [c EXCEPT !.mission_data.stage = c.mission_data.stage + 1],
          events |-> <<"STAGE SEPARATION CONFIRMED">>]
    ELSE [c |-> c, events |-> << >>]

\* an adjust_thrust that does not test mission_active
adjust_thrust_ungated(c, delta) ==
    [c |-> [c EXCEPT !.mission_data.thrust =
               Max(0, Min(100, c.mission_data.thrust + delta))],
     events |-> <<"THRUST ADJUSTED">>]

\* MissionController.adjust_thrust
adjust_thrust(c, delta) ==
    IF c.mission_active
    THEN [c |-> [c EXCEPT !.mission_data.thrust =
                     Max(0, Min(100, c.mission_data.thrust + delta))],
          events |-> <<"THRUST ADJUSTED">>]
    ELSE [c |-> c, events |-> << >>]

\* the controller after a callback, and what the callback logged
Becomes(op, r) ==
    /\ mission_active' = r.c.mission_active
    /\ mission_time' = r.c.mission_time
    /\ mission_data' = r.c.mission_data
    /\ systems' = r.c.systems
    /\ update_timer' = r.c.update_timer
    /\ pending' = r.c.pending
    /\ ret' = [op |-> op, events |-> r.events]

FailedSystems == {n \in SystemNames : ~systems[n]}

\* the anomalies explored in a tick
Anomalies ==
    {"none"} \cup
    {n \in SystemNames :
        /\ mission_time < MaxDegradedTime
        /\ Cardinality(FailedSystems \cup {n}) <= MaxFailedSystems}

\* ticks are explored while mission_time is below this
TickBound == IF FailedSystems = {} THEN MaxMissionTime ELSE MaxDegradedTime

\* MissionController.__init__
InitMission ==
    /\ mission_active = FALSE
    /\ mission_time = 0
    /\ mission_data = create_default
    /\ systems = [n \in SystemNames |-> TRUE]
    /\ update_timer = NoTimer
    /\ pending = {}

----------------------------------------------------------------------------
(* Construction and the calls made on the core *)

\* ResearchSystem.__init__
InitResearch ==
    /\ active_projects = << >>
    /\ researched_technologies = << >>
    /\ available_scientists = InitialScientists
    /\ research_points = InitialResearchPoints

\* TestProgram.__init__: self.research_system = ResearchSystem(), the one
\* given to SpacecraftFactory; no callback of the program calls its methods
InitFactory ==
    factory_research_system =
        [active_projects |-> << >>,
         researched_technologies |-> << >>,
         available_scientists |-> InitialScientists,
         research_points |-> InitialResearchPoints]

\* SpacecraftDesignerPanel.__init__
InitDesigner == current_design = "None"

Init ==
    /\ InitResearch
    /\ InitDesign
    /\ InitMission
    /\ InitFactory
    /\ InitDesigner
    /\ ret = [op |-> "init"]

StartResearch ==
    /\ available_scientists <= AvailableCap
    /\ \E t \in TechArgs, s \in ScientistArgs : start_research(t, s)
    /\ UNCHANGED <<designVars, missionVars, factoryVars, designerVars>>

UpdateResearch ==
    /\ update_research
    /\ UNCHANGED <<designVars, missionVars, factoryVars, designerVars>>

PauseResearch ==
    /\ \E t \in TechArgs : pause_research(t)
    /\ UNCHANGED <<designVars, missionVars, factoryVars, designerVars>>

ResumeResearch ==
    /\ available_scientists <= AvailableCap
    /\ \E t \in TechArgs, s \in ScientistArgs : resume_research(t, s)
    /\ UNCHANGED <<designVars, missionVars, factoryVars, designerVars>>

NextResearch ==
    \/ StartResearch
    \/ UpdateResearch
    \/ PauseResearch
    \/ ResumeResearch

\* the ResearchSystem under any sequence of calls
SpecResearch == Init /\ [][NextResearch]_vars

AddComponent ==
    /\ Cardinality(DOMAIN components) < MaxComponents
    /\ \E c \in CatalogIds, p \in Positions : add_component(c, p)
    /\ UNCHANGED <<researchVars, missionVars, factoryVars, designerVars>>

RemoveComponent ==
    /\ \E id \in DOMAIN components \cup {AbsentId} : remove_component(id)
    /\ UNCHANGED <<researchVars, missionVars, factoryVars, designerVars>>

NextDesign ==
    \/ AddComponent
    \/ RemoveComponent

\* a SpacecraftDesign under any sequence of calls
SpecDesign == Init /\ [][NextDesign]_vars

\* ResearchPanel._start_selected_research: the selected catalog node and the
\* spinbox value
PanelStart ==
    /\ \E t \in TechIds, s \in SpinboxArgs : start_research(t, s)
    /\ UNCHANGED <<designVars, missionVars, factoryVars, designerVars>>

\* ResearchPanel._update: the 1000 ms research tick
PanelUpdate ==
    /\ update_research
    /\ UNCHANGED <<designVars, missionVars, factoryVars, designerVars>>

NextResearchPanel ==
    \/ PanelStart
    \/ PanelUpdate

\* the ResearchSystem as the research panel drives it
SpecResearchPanel == Init /\ [][NextResearchPanel]_vars

\* the research panel with its tick: _update runs update_research and
\* schedules itself again with parent.after(1000, ...), so the tick keeps
\* coming for as long as the program runs
SpecResearchPanelFair ==
    Init /\ [][NextResearchPanel]_vars /\ WF_vars(PanelUpdate)

\* the next component goes on top of the stack
StackAdd ==
    /\ Cardinality(DOMAIN components) < StackHeight
    /\ \E c \in StackArgs :
          add_component(c, StackSlot(Cardinality(DOMAIN components)))
    /\ UNCHANGED <<researchVars, missionVars, factoryVars, designerVars>>

\* the top component is taken off the stack
StackRemove ==
    /\ \E id \in DOMAIN components :
          /\ id[2] = Cardinality(DOMAIN components) - 1
          /\ remove_component(id)
    /\ UNCHANGED <<researchVars, missionVars, factoryVars, designerVars>>

NextDesignStack ==
    \/ StackAdd
    \/ StackRemove

\* a SpacecraftDesign built of engines and tanks stacked along the diagonal
SpecDesignStack == Init /\ [][NextDesignStack]_vars

\* researched_techs lists tried: up to MaxResearched ids, in any order, with
\* repeats and with an id that is in no catalog
MaxResearched == 4

ResearchedArgs == UNION {[1..n -> TechArgs] : n \in 0..MaxResearched}

\* a call of ComponentLibrary.get_available_components
LibraryQuery ==
    /\ \E r \in ResearchedArgs :
          ret' = [op |-> "ComponentLibrary.get_available_components",
                  researched_techs |-> r,
                  result |-> get_available_components(r)]
    /\ UNCHANGED <<researchVars, designVars, missionVars, factoryVars, designerVars>>

NextLibrary == LibraryQuery

\* the ComponentLibrary under any sequence of queries
SpecLibrary == Init /\ [][NextLibrary]_vars

\* the "Refresh Components" button of the designer panel: reload_components
\* asks the factory for the available components
ReloadComponents ==
    /\ ret' = [op |-> "SpacecraftFactory.get_available_components",
               result |-> factory_get_available_components]
    /\ UNCHANGED <<researchVars, designVars, missionVars, factoryVars, designerVars>>

NextProgram ==
    \/ PanelStart
    \/ PanelUpdate
    \/ ReloadComponents

\* TestProgram: the research panel drives its own ResearchSystem, the
\* designer panel asks the factory
SpecProgram == Init /\ [][NextProgram]_vars

\* the "launch" button
Launch ==
    /\ mission_time < TickBound
    /\ \E a \in Anomalies : Becomes("start_mission", start_mission(Controller, a))
    /\ UNCHANGED <<researchVars, designVars, factoryVars, designerVars>>

\* a pending root.after callback runs update_mission
TimerFires ==
    /\ mission_time < TickBound
    /\ \E t \in pending, a \in Anomalies :
          Becomes("update_mission",
                  update_mission([Controller EXCEPT !.pending = pending \ {t}], a))
    /\ UNCHANGED <<researchVars, designVars, factoryVars, designerVars>>

\* the "stage" button
Stage ==
    /\ Becomes("next_stage", next_stage(Controller))
    /\ UNCHANGED <<researchVars, designVars, factoryVars, designerVars>>

\* the "abort" button
Abort ==
    /\ Becomes("abort_mission", abort_mission(Controller))
    /\ UNCHANGED <<researchVars, designVars, factoryVars, designerVars>>

\* the "thrust_up" button
ThrustUp ==
    /\ Becomes("thrust_up", adjust_thrust(Controller, 10))
    /\ UNCHANGED <<researchVars, designVars, factoryVars, designerVars>>

\* the "thrust_down" button
ThrustDown ==
    /\ Becomes("thrust_down", adjust_thrust(Controller, -10))
    /\ UNCHANGED <<researchVars, designVars, factoryVars, designerVars>>

NextMission ==
    \/ Launch
    \/ TimerFires
    \/ Stage
    \/ Abort
    \/ ThrustUp
    \/ ThrustDown

\* the MissionController under the pilot's buttons and the tick timer
SpecMission == Init /\ [][NextMission]_vars

\* pixels of the 600 x 600 design canvas where components are dropped
DropStep == 200

DropPixels == {0, DropStep, 2 * DropStep}

\* scale = 20 pixels per metre: a pixel is half a tenth of a metre
PixelsToTenths(p) == p \div 2

\* the "New Design" button: SpacecraftDesignerPanel._new_design
NewDesign ==
    /\ current_design' = "New Design"
    /\ components' = << >>
    /\ layout' = << >>
    /\ stats' = [mass |-> 0, cost |-> 0, power_balance |-> 0,
                 delta_v |-> DeltaVZero, reliability |-> ReliabilityZero]
    /\ ret' = [op |-> "_new_design"]
    /\ UNCHANGED <<researchVars, missionVars, factoryVars>>

\* SpacecraftDesignerPanel._add_component_to_design, for a component of the
\* palette dropped at pixel (x, y) of the design canvas
_add_component_to_design(component, x, y) ==
    IF current_design # "None"
    THEN add_component(component, [x |-> PixelsToTenths(x), y |-> 0,
                                   z |-> PixelsToTenths(y)])
    ELSE /\ UNCHANGED designVars
         /\ ret' = [op |-> "_add_component_to_design", component |-> component]

\* a component of the palette is dropped on the design canvas
Drop ==
    /\ \E component \in DOMAIN factory_get_available_components,
          x \in DropPixels, y \in DropPixels :
          _add_component_to_design(component, x, y)
    /\ UNCHANGED <<researchVars, missionVars, factoryVars, designerVars>>

NextDesigner ==
    \/ NewDesign
    \/ Drop

\* the designer panel of TestProgram under its buttons and drops
SpecDesigner == Init /\ [][NextDesigner]_vars

----------------------------------------------------------------------------
(* Research system: properties *)

Count(list, x) == Cardinality({i \in DOMAIN list : list[i] = x})

\* the project reaches 100 % in the coming update_research: progress plus
\* scientists_assigned * efficiency / research_time is at least 100
ReachesCap(p) ==
    /\ p.status = "ACTIVE"
    /\ p.scientists_assigned * Efficiency * ProgressScale
          >= (ProgressCap * ProgressScale - p.progress)
                 * Technologies[p.tech_id].research_time

ProgressInRange ==
    \A i \in DOMAIN active_projects :
        /\ active_projects[i].progress >= 0
        /\ active_projects[i].progress <= ProgressCap * ProgressScale

ProgressNotDecreased ==
    ret'.op = "update_research" =>
        \A i \in DOMAIN active_projects :
            LET p == active_projects[i]
            IN  (p.status = "ACTIVE" /\ p.tech_id \in ProjectIds') =>
                    \E j \in DOMAIN active_projects' :
                        /\ active_projects'[j].tech_id = p.tech_id
                        /\ active_projects'[j].progress >= p.progress

\* C1: every project's progress is always within 0..100, and no
\* update_research call makes the progress of an ACTIVE project smaller than
\* it was before the call.
C1_ProgressBoundedMonotone == []ProgressInRange /\ [][ProgressNotDecreased]_vars

PrerequisitesResearched(tech_id) ==
    \A i \in DOMAIN Technologies[tech_id].prerequisites :
        Technologies[tech_id].prerequisites[i] \in Range(researched_technologies)

PrerequisitesClosed ==
    \A t \in Range(researched_technologies) \cup ProjectIds :
        PrerequisitesResearched(t)

RejectsUnmetPrerequisite ==
    (/\ ret'.op = "start_research"
     /\ ret'.tech_id \in TechIds
     /\ ~PrerequisitesResearched(ret'.tech_id))
        => (ret'.result = FALSE /\ active_projects' = active_projects)

\* C2: start_research returns False and creates no project whenever a
\* prerequisite of the technology is not researched; every technology that is
\* researched or has a project has all its prerequisites researched.
C2_PrerequisitesEnforced == []PrerequisitesClosed /\ [][RejectsUnmetPrerequisite]_vars

\* a start of LIQUID_FUEL has just been rejected while BASIC_ROCKETRY, its
\* prerequisite, is not researched
C2_Witness ==
    /\ ret.op = "start_research"
    /\ ret.tech_id = "LIQUID_FUEL"
    /\ ret.result = FALSE
    /\ "BASIC_ROCKETRY" \notin Range(researched_technologies)
    /\ "BASIC_ROCKETRY" \in ProjectIds

\* C3: a start_research that returns False leaves active_projects,
\* available_scientists, research_points and researched_technologies unchanged.
C3_RejectedStartHasNoEffect ==
    [][(ret'.op = "start_research" /\ ret'.result = FALSE)
           => UNCHANGED researchVars]_vars

\* a start has just been rejected for its cost alone: the technology is
\* available, not researched, the scientists are there, the points are not
C3_Witness ==
    /\ ret.op = "start_research"
    /\ ret.result = FALSE
    /\ ret.tech_id \in TechIds
    /\ PrerequisitesResearched(ret.tech_id)
    /\ ret.tech_id \notin Range(researched_technologies)
    /\ ret.scientists <= available_scientists
    /\ Technologies[ret.tech_id].cost > research_points

CompletionEffects ==
    ret'.op = "update_research" =>
        LET completing == SelectSeq(active_projects, ReachesCap)
        IN  /\ \A i \in DOMAIN completing :
                  /\ completing[i].tech_id \notin ProjectIds'
                  /\ completing[i].tech_id \in Range(ret'.result)
                  /\ Count(researched_technologies', completing[i].tech_id) = 1
            /\ completing # << >> =>
                  available_scientists' =
                      available_scientists + SumAssigned(completing)

\* C4: in the update_research call in which an ACTIVE project reaches 100 its
\* project is removed, its scientists go back to the pool, its id is in the
\* returned list and is exactly once in researched_technologies.
C4_CompletionEffects == [][CompletionEffects]_vars

\* an update_research has just completed LIQUID_FUEL, with both technologies
\* researched and the project gone
C4_Witness ==
    /\ ret.op = "update_research"
    /\ ret.result = <<"LIQUID_FUEL">>
    /\ researched_technologies = <<"BASIC_ROCKETRY", "LIQUID_FUEL">>
    /\ active_projects = << >>
    /\ available_scientists > 0

\* C5: available_scientists plus the scientists assigned to the projects in
\* active_projects is always the initial pool of 10.
C5_ScientistsConserved ==
    available_scientists + SumAssigned(active_projects) = InitialScientists

----------------------------------------------------------------------------
(* Mission controller: properties *)

\* the callback just run logged "MISSION ABORT COMMANDED": abort_mission set
\* mission_active to False and reset the mission
AbortedNow == \E i \in DOMAIN ret'.events : ret'.events[i] = "MISSION ABORT COMMANDED"

\* the callback just run was a tick that reached its status check
StatusCheckNow ==
    \/ ret'.op = "update_mission" /\ mission_active
    \/ ret'.op = "start_mission" /\ ~mission_active

\* fuel <= 0 or temperature > 100 at the status check of the tick that starts
\* from the current mission data
AbortConditionAtCheck ==
    LET d == _update_physics(mission_data)
    IN  d.fuel <= 0 \/ d.temperature > 100 * Hundredths

PilotAbortNow == ret'.op = "abort_mission" /\ mission_active

MissionIsReset ==
    /\ ~mission_active
    /\ mission_time = 0
    /\ mission_data = create_default

\* C6 as stated: the mission is aborted exactly when, at the status check of
\* a tick, fuel <= 0 or temperature > 100, and never otherwise.
C6_AbortOnlyAtStatusCheck ==
    [][AbortedNow <=> (StatusCheckNow /\ AbortConditionAtCheck)]_vars

\* C6 amended: the mission is aborted (mission_active False, mission reset)
\* exactly when the status check of a tick finds fuel <= 0 or temperature >
\* 100, or the pilot presses abort during an active mission.
C6_AbortAtStatusCheckOrByPilot ==
    [][/\ AbortedNow <=> \/ StatusCheckNow /\ AbortConditionAtCheck
                         \/ PilotAbortNow
       /\ AbortedNow => MissionIsReset'
       /\ (mission_active /\ ~mission_active') => AbortedNow]_vars

\* a timer tick has just found the fuel at 0 and aborted the mission
C6_Witness ==
    /\ ret.op = "update_mission"
    /\ \E i \in DOMAIN ret.events : ret.events[i] = "CRITICAL: Fuel depleted"
    /\ ~mission_active

----------------------------------------------------------------------------
(* Spacecraft design: properties *)

\* the boxes [position, position + size] of two placed components meet on
\* all three axes
BoxesOverlap(size1, pos1, size2, pos2) ==
    \A axis \in Axes :
        /\ pos1[axis] <= pos2[axis] + size2[axis]
        /\ pos2[axis] <= pos1[axis] + size1[axis]

\* C8: no two placed components have bounding boxes that overlap on all three
\* axes.
C8_NoOverlappingComponents ==
    \A a, b \in DOMAIN components :
        a # b => ~BoxesOverlap(Catalog[components[a]].size, layout[a],
                               Catalog[components[b]].size, layout[b])

\* a design holding two components
C8_Witness == Cardinality(DOMAIN components) >= 2

\* the new box meets the box of a placed component on all three axes
OverlapsPlaced(component, position) ==
    \E id \in DOMAIN components :
        BoxesOverlap(Catalog[component].size, position,
                     Catalog[components[id]].size, layout[id])

\* C9: add_component returns False if and only if the new component's box
\* overlaps the box of a placed component on all three axes.
C9_RejectsExactlyOverlaps ==
    [][ret'.op = "add_component" =>
          (ret'.result = "False"
              <=> OverlapsPlaced(ret'.component, ret'.position))]_vars

HoldsEngine ==
    \E id \in DOMAIN components :
        Catalog[components[id]].class = "PropulsionComponent"

HoldsFuel ==
    \E id \in DOMAIN components :
        /\ Catalog[components[id]].class = "StorageComponent"
        /\ Catalog[components[id]].contents_type = "FUEL"
        /\ Catalog[components[id]].max_mass > 0

\* C10: get_summary reports delta_v = 0 whenever the design holds no
\* propulsion component or no fuel mass.
C10_NoDeltaVWithoutEngineOrFuel ==
    (~HoldsEngine \/ ~HoldsFuel) => DeltaVIsZero(get_summary.delta_v)

\* C11: no call on the simulation core raises an exception: add_component
\* and remove_component return True or False, start_research, pause_research
\* and resume_research return a bool, update_research returns a list of ids.
C11_NoExceptionRaised ==
    /\ ret.op \in {"add_component", "remove_component"}
          => ret.result \in {"True", "False"}
    /\ ret.op \in {"start_research", "pause_research", "resume_research"}
          => ret.result \in BOOLEAN
    /\ ret.op = "update_research" => ret.result \in Seq(TechIds)

RECURSIVE Product(_, _)
\* the product of f[i] over the ids in S
Product(f, S) ==
    IF S = {} THEN 1
    ELSE LET i == CHOOSE i \in S : TRUE
         IN  f[i] * Product(f, S \ {i})

\* the value of a reliability, in units of 100 ^ -(number of factors)
ReliabilityValue(r) ==
    IF r.zero THEN 0
    ELSE LET values == BagToSet(r.factors)
             power(v) == Product([k \in 1..CopiesIn(v, r.factors) |-> v],
                                 1..CopiesIn(v, r.factors))
         IN  Product([v \in values |-> power(v)], values)

\* the summary recomputed from the placed components
RecomputedSummary ==
    LET ids == DOMAIN components
        spec(i) == Catalog[components[i]]
        generators == {i \in ids : spec(i).class = "PowerComponent"}
    IN  [mass |-> Sum([i \in ids |-> spec(i).mass], ids),
         cost |-> Sum([i \in ids |-> spec(i).cost], ids),
         power_balance |->
             Sum([i \in generators |-> spec(i).power_output], generators)
                 - Sum([i \in ids |-> spec(i).power_required], ids),
         reliability |-> Product([i \in ids |-> spec(i).reliability], ids),
         component_count |-> Cardinality(ids)]

\* C12: after every add_component or remove_component that returned True,
\* get_summary's mass, cost, power_balance, reliability and component_count
\* are the sums, the power balance, the product and the count recomputed from
\* the components now placed.
C12_SummaryIsRecomputation ==
    (ret.op \in {"add_component", "remove_component"} /\ ret.result = "True") =>
        LET s == get_summary
            r == RecomputedSummary
        IN  /\ s.mass = r.mass
            /\ s.cost = r.cost
            /\ s.power_balance = r.power_balance
            /\ BagCardinality(s.reliability.factors) = r.component_count
            /\ ReliabilityValue(s.reliability) = r.reliability
            /\ s.component_count = r.component_count

\* a remove_component has just succeeded and left a solar panel generating
\* more power than the design draws
C12_Witness ==
    /\ ret.op = "remove_component"
    /\ ret.result = "True"
    /\ \E id \in DOMAIN components : components[id] = "SOLAR_PANEL"
    /\ get_summary.power_balance > 0
    /\ get_summary.mass > 0

\* C17: every project accepted by start_research (and never paused: the
\* panel has no pause) eventually completes: its technology leaves
\* active_projects and enters researched_technologies.
C17_AcceptedProjectCompletes ==
    \A tech_id \in TechIds :
        (tech_id \in ProjectIds)
            ~> (/\ tech_id \notin ProjectIds
                /\ tech_id \in Range(researched_technologies))

\* the technologies started so far: each has a project or is researched
StartedTechnologies == ProjectIds \cup Range(researched_technologies)

RestartRejected ==
    (ret'.op = "start_research" /\ ret'.tech_id \in ProjectIds)
        => ret'.result = FALSE

PointsSpentOncePerTechnology ==
    research_points >=
        InitialResearchPoints
            - Sum([t \in StartedTechnologies |-> Technologies[t].cost],
                  StartedTechnologies)

\* C18: start_research returns False for a technology that has a project in
\* active_projects, so research_points never drops below 1000 minus the
\* costs of the distinct technologies started.
C18_NoRestartOfRunningProject ==
    [][RestartRejected]_vars /\ []PointsSpentOncePerTechnology

----------------------------------------------------------------------------
(* Assembled program and catalogs: properties *)

\* the catalog components whose tech_requirement is the technology
UnlockedBy(tech_id) ==
    {comp_id \in CatalogIds : Catalog[comp_id].tech_requirement = tech_id}

\* C13: once a technology is researched in the research panel, the
\* component list the factory returns holds every component whose
\* tech_requirement is that technology.
C13_ComponentsUnlockOnResearch ==
    ret.op = "SpacecraftFactory.get_available_components" =>
        \A tech_id \in Range(researched_technologies) :
            UnlockedBy(tech_id) \subseteq DOMAIN ret.result

LibraryReturnsExactly ==
    ret.op = "ComponentLibrary.get_available_components" =>
        /\ DOMAIN ret.result =
               {comp_id \in CatalogIds :
                   Catalog[comp_id].tech_requirement
                       \in {""} \cup Range(ret.researched_techs)}
        /\ \A comp_id \in DOMAIN ret.result :
               ret.result[comp_id] = Catalog[comp_id]

LibraryNeverShrinks ==
    (/\ ret.op = "ComponentLibrary.get_available_components"
     /\ ret'.op = "ComponentLibrary.get_available_components"
     /\ Range(ret.researched_techs) \subseteq Range(ret'.researched_techs))
        => DOMAIN ret.result \subseteq DOMAIN ret'.result

\* C14: ComponentLibrary.get_available_components(researched) returns exactly
\* the catalog components whose tech_requirement is empty or in researched,
\* and a query with a larger researched set returns no fewer components.
C14_AvailableComponentsExact ==
    []LibraryReturnsExactly /\ [][LibraryNeverShrinks]_vars

\* a query with BASIC_ROCKETRY but not LIQUID_FUEL researched has returned
\* every component but the solar panel
C14_Witness ==
    /\ ret.op = "ComponentLibrary.get_available_components"
    /\ "BASIC_ROCKETRY" \in Range(ret.researched_techs)
    /\ "LIQUID_FUEL" \notin Range(ret.researched_techs)
    /\ DOMAIN ret.result = CatalogIds \ {"SOLAR_PANEL"}

\* the technologies that list the technology among their prerequisites
Dependants(tech_id) ==
    {d \in TechIds : tech_id \in Range(Technologies[d].prerequisites)}

AvailableTechnologiesExact ==
    Range(get_available_technologies) =
        {t \in TechIds : /\ t \notin Range(researched_technologies)
                         /\ PrerequisitesResearched(t)}

CompletedLeavesDependantsEnter ==
    ret'.op = "update_research" =>
        \A i \in DOMAIN ret'.result :
            /\ ret'.result[i] \in Range(get_available_technologies)
            /\ ret'.result[i] \notin Range(get_available_technologies')
            /\ \A d \in Dependants(ret'.result[i]) :
                  /\ d \notin Range(get_available_technologies)
                  /\ d \in Range(get_available_technologies')

\* C15: get_available_technologies returns exactly the catalog technologies
\* that are not researched and whose prerequisites are all researched; the
\* update_research that completes a technology takes it out of the returned
\* list and brings its dependants in.
C15_AvailableTechnologiesExact ==
    []AvailableTechnologiesExact /\ [][CompletedLeavesDependantsEnter]_vars

\* BASIC_ROCKETRY has just completed: LIQUID_FUEL is the only technology
\* returned
C15_Witness ==
    /\ ret.op = "update_research"
    /\ ret.result = <<"BASIC_ROCKETRY">>
    /\ get_available_technologies = <<"LIQUID_FUEL">>

----------------------------------------------------------------------------
(* Mission controller: ticks and commands *)

\* the flight state one tick makes of d, as specified (hundredths)
TickOf(d) ==
    LET T == d.thrust
        altitude == d.altitude + (IF d.stage = 1 THEN 10 * T ELSE 5 * T)
        velocity == d.velocity + (IF d.stage = 1 THEN 5 * T ELSE 10 * T)
        fuel == d.fuel - (IF d.stage = 1 THEN 20 * T ELSE 10 * T)
        drag == IF altitude < 100 * Hundredths THEN 1 ELSE 0
        cooled == IF d.temperature - 5 > 20 * Hundredths
                  THEN d.temperature - 5 ELSE 20 * Hundredths
    IN  [altitude |-> altitude,
         velocity |-> velocity - drag,
         fuel |-> fuel,
         battery |-> d.battery - 1,
         temperature |-> IF T > 50 THEN d.temperature + 10 ELSE cooled,
         stage |-> d.stage,
         thrust |-> d.thrust,
         orientation |-> d.orientation,
         comms |-> d.comms,
         orbit_status |-> d.orbit_status]

\* flight states on both sides of the 100 km line and of the 50 % thrust
\* line, in both stages, cold and hot
PhysicsArgs ==
    {[create_default EXCEPT !.altitude = a, !.thrust = t, !.stage = s,
                            !.temperature = k] :
        a \in {0, 9989, 9990, 10000, 30000}, t \in {0, 10, 50, 60, 100},
        s \in {1, 2}, k \in {2000, 2003, 2005, 9995}}

TickIsTickOf ==
    StatusCheckNow =>
        /\ _update_physics(mission_data) = TickOf(mission_data)
        /\ ~AbortedNow => mission_data' = TickOf(mission_data)

InitialController ==
    [mission_active |-> FALSE, mission_time |-> 0,
     mission_data |-> create_default,
     systems |-> [n \in SystemNames |-> TRUE],
     update_timer |-> NoTimer, pending |-> {}]

\* the controller's fields but the timer handles
Flight(c) ==
    [mission_active |-> c.mission_active, mission_time |-> c.mission_time,
     mission_data |-> c.mission_data, systems |-> c.systems]

\* start_mission on c does what it does on a new controller: the same
\* flight state, the same log lines and one tick scheduled
StartsFresh(c) ==
    \A anomaly \in {"none"} \cup SystemNames :
        LET started == start_mission(c, anomaly)
            fresh == start_mission(InitialController, anomaly)
        IN  /\ Flight(started.c) = Flight(fresh.c)
            /\ started.events = fresh.events
            /\ Cardinality(started.c.pending) = 1
            /\ started.c.update_timer \in started.c.pending

BackToInitialOnAbort ==
    AbortedNow =>
        /\ Flight(Controller') = Flight(InitialController)
        /\ pending' = {}

\* C19: after an abort, by the pilot or by the status check, mission_active
\* is False, mission_time is 0, the mission data is create_default() and the
\* six subsystem flags are True, and a start_mission that follows begins the
\* same mission as on a new controller.
C19_AbortResetsController ==
    /\ [][BackToInitialOnAbort]_vars
    /\ [](~mission_active => StartsFresh(Controller))

\* the pilot has just aborted a mission that had a tick scheduled
C19_Witness ==
    /\ ret.op = "abort_mission"
    /\ \E i \in DOMAIN ret.events : ret.events[i] = "MISSION ABORT COMMANDED"
    /\ ~mission_active
    /\ update_timer # NoTimer
    /\ pending = {}

PilotCommands == {"thrust_up", "thrust_down", "next_stage", "abort_mission"}

IgnoredWhileInactive ==
    (~mission_active /\ ret'.op \in PilotCommands \cup {"update_mission"})
        => /\ UNCHANGED <<mission_data, mission_time, systems>>
           /\ ret'.events = << >>

StartIgnoredWhileActive ==
    (mission_active /\ ret'.op = "start_mission")
        => /\ UNCHANGED missionVars
           /\ ret'.events = << >>

\* update_mission on an inactive controller returns at once, whatever the
\* anomaly draw would have been
TickIgnoredWhileInactive ==
    ~mission_active =>
        \A anomaly \in {"none"} \cup SystemNames :
            update_mission(Controller, anomaly) =
                [c |-> Controller, events |-> << >>]

\* C20: while the mission is inactive, adjust_thrust, next_stage,
\* abort_mission and update_mission leave the mission data, mission_time and
\* the subsystem flags unchanged; while it is active, start_mission changes
\* nothing and runs no tick.
C20_CommandsGatedOnMissionActive ==
    /\ [][IgnoredWhileInactive /\ StartIgnoredWhileActive]_vars
    /\ []TickIgnoredWhileInactive

\* a thrust command has just been ignored on a controller whose mission was
\* aborted
C20_Witness ==
    /\ ret.op = "thrust_up"
    /\ ret.events = << >>
    /\ ~mission_active
    /\ update_timer # NoTimer
    /\ mission_data.thrust = 0

ThrustAndStageInRange ==
    /\ mission_data.thrust \in 0..100
    /\ mission_data.thrust % 10 = 0
    /\ mission_data.stage \in {1, 2}

StageNeverDecreases ==
    (mission_active /\ mission_active')
        => mission_data'.stage >= mission_data.stage

NextStageStopsAtTwo ==
    (ret'.op = "next_stage" /\ mission_data.stage = 2)
        => /\ UNCHANGED missionVars
           /\ ret'.events = << >>

\* C21: thrust is always within 0..100 and a multiple of 10, stage is always
\* 1 or 2; stage never decreases during a mission and next_stage has no
\* effect once stage is 2.
C21_ThrustAndStageBounded ==
    /\ []ThrustAndStageInRange
    /\ [][StageNeverDecreases /\ NextStageStopsAtTwo]_vars

\* the stage button has just been ignored in stage 2 at full thrust
C21_Witness ==
    /\ ret.op = "next_stage"
    /\ ret.events = << >>
    /\ mission_active
    /\ mission_data.stage = 2
    /\ mission_data.thrust = 100

\* the tick just run drew an anomaly
AnomalyNow ==
    \E i \in DOMAIN ret'.events : ret'.events[i] = "WARNING: anomaly"

\* the tick started from the current state, had it drawn no anomaly
QuietTick ==
    update_mission([Controller EXCEPT !.mission_active = TRUE, !.pending = {}],
                   "none")

AnomalyOnlyFlipsOneFlag ==
    (StatusCheckNow /\ AnomalyNow) =>
        /\ mission_data' = QuietTick.c.mission_data
        /\ mission_active' = QuietTick.c.mission_active
        /\ mission_time' = QuietTick.c.mission_time
        /\ Cardinality(pending') = Cardinality(QuietTick.c.pending)
        /\ SelectSeq(ret'.events,
                     LAMBDA e : e \notin {"WARNING: anomaly",
                                          "MISSION STARTED - T PLUS ZERO"})
              = QuietTick.events
        /\ mission_active' =>
              \E n \in SystemNames : systems' = [systems EXCEPT ![n] = FALSE]

FlagsChangeOnlyByAnomalyOrAbort ==
    /\ (~AnomalyNow /\ ~AbortedNow) => systems' = systems
    /\ ~AbortedNow => \A n \in SystemNames : ~systems[n] => ~systems'[n]

\* C22: a tick that draws an anomaly differs from the same tick without it
\* only in one subsystem flag set to False and the warning logged: mission
\* data, mission_active, mission_time and the scheduling of the next tick are
\* the same; a flag that is False stays False until an abort resets the
\* mission.
C22_AnomalyIsLogOnly ==
    [][AnomalyOnlyFlipsOneFlag /\ FlagsChangeOnlyByAnomalyOrAbort]_vars

\* a timer tick under thrust has just drawn an anomaly and the mission goes on
\* with one flag down
C22_Witness ==
    /\ ret.op = "update_mission"
    /\ \E i \in DOMAIN ret.events : ret.events[i] = "WARNING: anomaly"
    /\ mission_active
    /\ Cardinality(FailedSystems) = 1
    /\ mission_data.thrust > 0
    /\ mission_data.altitude > 0

\* one update_mission is scheduled while the mission is active, the one
\* update_timer holds, and none while it is inactive
OneTickScheduled ==
    IF mission_active
    THEN pending = {update_timer} /\ update_timer # NoTimer
    ELSE pending = {}

\* a timer firing after which the mission goes on
TimerFiredNow == ret'.op = "update_mission" /\ mission_active /\ mission_active'

TimeAdvancesPerFiring ==
    /\ TimerFiredNow => mission_time' = mission_time + 1
    /\ (mission_active /\ mission_active' /\ ret'.op # "update_mission")
          => mission_time' = mission_time

\* C23: under every interleaving of the pilot's buttons and timer firings,
\* exactly one update_mission is scheduled while the mission is active and
\* none while it is inactive, and mission_time advances by exactly one per
\* timer firing and not otherwise during a mission.
C23_OneTickPending ==
    /\ []OneTickScheduled
    /\ [][TimeAdvancesPerFiring]_vars

\* a mission launched again after an abort, whose timer has fired: one tick is
\* scheduled although update_timer held a stale handle at the launch
C23_Witness ==
    /\ ret.op = "update_mission"
    /\ mission_active
    /\ mission_time = 2
    /\ Cardinality(pending) = 1
    /\ update_timer > 1

\* fuel + 2 * altitude = 100
FuelPlusTwiceAltitude ==
    mission_data.fuel + 2 * mission_data.altitude = 100 * Hundredths

FuelLeftWhileActive ==
    mission_active =>
        /\ mission_data.fuel > 0
        /\ mission_data.altitude < 50 * Hundredths

\* the tick that starts from the current mission data takes the atmospheric
\* drag off the velocity
DragOnNextTick ==
    LET d == _update_physics(mission_data)
        factors == stage_factors[mission_data.stage]
    IN  /\ d.altitude < 100 * Hundredths
        /\ d.velocity = mission_data.velocity
                          + mission_data.thrust * factors.velocity - 1

\* C24: between callbacks fuel + 2 * altitude = 100, in both stages and after
\* every reset; so while the mission is active fuel > 0 and altitude < 50 km,
\* and every tick applies the atmospheric drag.
C24_FuelAltitudeConserved ==
    /\ FuelPlusTwiceAltitude
    /\ FuelLeftWhileActive
    /\ DragOnNextTick

\* a second-stage tick under thrust has climbed half a kilometre and burnt
\* one unit of fuel
C24_Witness ==
    /\ ret.op = "update_mission"
    /\ mission_active
    /\ mission_data.stage = 2
    /\ mission_data.thrust = 10
    /\ mission_data.altitude % Hundredths = 50
    /\ mission_data.fuel < 100 * Hundredths

\* sequences of callbacks are enumerated up to this mission_time
MaxPlanTime == 3

\* what the pilot's buttons and a timer firing without an anomaly make of
\* controller c, each with the lines it logs; ticks stop at MaxPlanTime
Callbacks(c) ==
    {next_stage(c), abort_mission(c), adjust_thrust(c, 10), adjust_thrust(c, -10)}
    \cup (IF c.mission_time < MaxPlanTime
          THEN {start_mission(c, "none")}
               \cup {update_mission([c EXCEPT !.pending = c.pending \ {t}], "none") :
                        t \in c.pending}
          ELSE {})

\* the controllers some sequence of callbacks leads to
RECURSIVE ReachableFrom(_, _)
ReachableFrom(frontier, seen) ==
    IF frontier = {}
    THEN seen
    ELSE LET next == UNION {{r.c : r \in Callbacks(c)} : c \in frontier} \ seen
         IN  ReachableFrom(next, seen \cup next)

SuccessLogged(r) ==
    \E i \in DOMAIN r.events : r.events[i] = "SUCCESS: Target orbit achieved!"

\* C25: from the controller as constructed, some sequence of launch, thrust
\* and stage commands and ticks ends in a status check that finds
\* |altitude - 300| < 10 and |velocity - 7.8| < 0.1 and logs SUCCESS.
C25_TargetOrbitAttainable ==
    ret.op = "init" =>
        \E c \in ReachableFrom({Controller}, {Controller}) :
            \E r \in Callbacks(c) : SuccessLogged(r)

TemperatureAbortLogged(r) ==
    \E i \in DOMAIN r.events : r.events[i] = "CRITICAL: Temperature critical"

\* C26: from the controller as constructed, some sequence of pilot commands
\* and ticks ends in a status check that finds temperature > 100 and aborts
\* the mission with "Temperature critical", not on fuel.
C26_TemperatureAbortAttainable ==
    ret.op = "init" =>
        \E c \in ReachableFrom({Controller}, {Controller}) :
            \E r \in Callbacks(c) :
                TemperatureAbortLogged(r) /\ ~r.c.mission_active

DesignOps == {"add_component", "remove_component"}

RejectedChangesNothing ==
    (ret'.op \in DesignOps /\ ret'.result = "False") =>
        /\ components' = components
        /\ layout' = layout
        /\ get_summary' = get_summary

SameKeys == DOMAIN components = DOMAIN layout

\* C27: an add_component or a remove_component that returns False leaves
\* components, layout and every statistic of the summary as they were, and
\* components and layout always have the same keys.
C27_RejectedMutationChangesNothing ==
    /\ []SameKeys
    /\ [][RejectedChangesNothing]_vars

\* an add_component rejected for a collision with a placed component
C27_Witness ==
    /\ ret.op = "add_component"
    /\ ret.result = "False"
    /\ Cardinality(DOMAIN components) >= 1
    /\ get_summary.mass > 0

AcceptedAddKeepsPlaced ==
    (ret'.op = "add_component" /\ ret'.result = "True") =>
        /\ get_summary'.component_count = get_summary.component_count + 1
        /\ \A id \in DOMAIN components :
              /\ id \in DOMAIN components'
              /\ components'[id] = components[id]
              /\ layout'[id] = layout[id]

\* C28: every add_component that returns True raises component_count by
\* exactly one and keeps every component placed before, with its position:
\* the id it generates is not in use.
C28_AcceptedAddKeepsPlaced == [][AcceptedAddKeepsPlaced]_vars

\* two summaries report the same figures
SameSummary(a, b) ==
    /\ a.mass = b.mass
    /\ a.cost = b.cost
    /\ a.power_balance = b.power_balance
    /\ a.delta_v = b.delta_v \/ (DeltaVIsZero(a.delta_v) /\ DeltaVIsZero(b.delta_v))
    /\ a.reliability = b.reliability
    /\ a.component_count = b.component_count

\* get_summary of a SpacecraftDesign just constructed
FreshSummary ==
    [mass |-> 0, cost |-> 0, power_balance |-> 0, delta_v |-> DeltaVZero,
     reliability |-> ReliabilityZero, component_count |-> 0]

\* the statistics after component is added where nothing collides and removed
\* again, none when one of the two calls raises
AddedThenRemoved(component) ==
    LET component_id == <<component, Cardinality(DOMAIN components)>>
        added == _update_statistics(Put(components, component_id, component), stats)
        removed == _update_statistics(components, added.stats)
    IN  IF component_id \notin DOMAIN components
           /\ added.raised = "none" /\ removed.raised = "none"
        THEN {removed.stats}
        ELSE {}

SummaryOfStats(s) ==
    [mass |-> s.mass, cost |-> s.cost, power_balance |-> s.power_balance,
     delta_v |-> s.delta_v, reliability |-> s.reliability,
     component_count |-> Cardinality(DOMAIN components)]

AddRemoveRestoresSummary ==
    \A component \in CatalogIds :
        \A s \in AddedThenRemoved(component) :
            SameSummary(SummaryOfStats(s), get_summary)

EmptyReportsFreshSummary ==
    components = << >> => SameSummary(get_summary, FreshSummary)

\* C29: get_summary depends only on the components placed: adding a component
\* and removing it again restores the summary (mass, cost, power_balance,
\* delta_v, reliability), and a design emptied by removals reports the summary
\* of a design just constructed.
C29_SummaryDependsOnPlacedOnly ==
    /\ AddRemoveRestoresSummary
    /\ EmptyReportsFreshSummary

\* the x-z footprint of component at position meets that of no placed
\* component
FootprintDisjoint(component, position) ==
    \A comp_id \in DOMAIN components :
        \E axis \in {"x", "z"} :
            ~AxisOverlap(Catalog[component].size, position,
                         Catalog[components[comp_id]].size, layout[comp_id], axis)

DisjointDropAccepted ==
    (/\ current_design # "None"
     /\ ret'.op = "add_component"
     /\ ret'.position.y = 0
     /\ FootprintDisjoint(ret'.component, ret'.position))
        => ret'.result = "True"

\* C30: in the designer panel, where every drop is placed at y = 0, a drop
\* whose x-z footprint is disjoint from that of every placed component is
\* accepted by add_component, so that a design can hold two or more
\* components.
C30_DisjointDropAccepted == [][DisjointDropAccepted]_vars

====
